---- MODULE Spec2Model ----
(***************************************************************************)
(* A model of torch_ods_gen.py, the generator of the Torch dialect's ODS   *)
(* definitions: the type-predicate table and get_ods_type, raw_emit_op,    *)
(* emit_op, and the emit / emit_with_mutating_variants helpers of          *)
(* emit_ops, writing through a TextEmitter into the .td file.              *)
(*                                                                         *)
(* Text is modelled as text: every line of the sink is a string, built by  *)
(* the same concatenations, joins and splits as the Python code performs.  *)
(***************************************************************************)
EXTENDS Integers, Sequences, FiniteSets, TLC

VARIABLES
    registry,                 \* Registry: the set of JitOperator objects of this run
    catalog,                  \* the calls this run's driver may issue (static data of emit_ops)
    out,                      \* TextEmitter.out: the lines written so far
    indent_level,             \* TextEmitter.indent_level
    TORCH_TYPE_TO_ODS_TYPE,   \* the module-level mapping
    caller_traits,            \* a list object owned by the caller of emit_op
    emitted,                  \* one record per emit_op invocation of the run
    last,                     \* the most recent call and its outcome
    status,                   \* "running", or "aborted" once an exception has propagated
    calls                     \* number of calls issued

vars == <<registry, catalog, out, indent_level, TORCH_TYPE_TO_ODS_TYPE,
          caller_traits, emitted, last, status, calls>>

----------------------------------------------------------------------------
(* Bounds of the model. *)

MaxCalls == 2
MaxArgs == 2
MaxRets == 2

----------------------------------------------------------------------------
(* Python string and list primitives used by the generator. *)

NL == "\n"

(* The backquote character of the ODS format literals. *)
BT == SubSeq("`'", 1, 1)

(* The quoted arrow and comma separators. *)
ARROW == " " \o BT \o "->" \o BT \o " "
COMMA == " " \o BT \o "," \o BT \o " "

StartsWith(s, prefix) ==
    Len(s) >= Len(prefix) /\ SubSeq(s, 1, Len(prefix)) = prefix

Contains(s, sub) ==
    \E i \in 1..(Len(s) - Len(sub) + 1) : SubSeq(s, i, i + Len(sub) - 1) = sub

RECURSIVE Join(_, _)
Join(sep, items) ==
    IF items = <<>> THEN ""
    ELSE IF Len(items) = 1 THEN items[1]
    ELSE items[1] \o sep \o Join(sep, Tail(items))

(* Positions of the line breaks of s. *)
Breaks(s) == {i \in 1..Len(s) : SubSeq(s, i, i) = NL}

(* The k-th smallest element of a set of positions. *)
Nth(P, k) == CHOOSE p \in P : Cardinality({q \in P : q < p}) = k - 1

LineStart(P, k) == IF k = 1 THEN 1 ELSE Nth(P, k - 1) + 1
LineStop(s, P, k) == IF k <= Cardinality(P) THEN Nth(P, k) - 1 ELSE Len(s)
LineCount(s, P) ==
    IF s = "" THEN 0
    ELSE IF Len(s) \in P THEN Cardinality(P) ELSE Cardinality(P) + 1

LinesAt(s, P) ==
    [k \in 1..LineCount(s, P) |-> SubSeq(s, LineStart(P, k), LineStop(s, P, k))]

(* str.splitlines(): the lines of s without their line breaks; a final     *)
(* line break ends the last line and opens no empty one.                   *)
SplitLines(s) == LinesAt(s, Breaks(s))

RECURSIVE Repeat(_, _)
Repeat(s, n) == IF n <= 0 THEN "" ELSE s \o Repeat(s, n - 1)

RECURSIVE LStrip(_)
LStrip(s) ==
    IF Len(s) > 0 /\ SubSeq(s, 1, 1) = " " THEN LStrip(SubSeq(s, 2, Len(s))) ELSE s

Str(n) == ToString(n)

Repr(s) == "'" \o s \o "'"

----------------------------------------------------------------------------
(* The type-predicate table and its lookup. *)

TableInit ==
    ("Tensor" :> "AnyTorchTensorType") @@
    ("Tensor?" :> "AnyTorchOptionalTensorType") @@
    ("Tensor?[]" :> "AnyTorchListOfOptionalTensorType") @@
    ("Tensor[]" :> "AnyTorchListOfTensorType") @@
    ("Scalar" :> "AnyTorchScalarType") @@
    ("Scalar?" :> "AnyTorchOptionalScalarType") @@
    ("int" :> "Torch_IntType") @@
    ("int[]" :> "AnyTorchListOfTorchIntType") @@
    ("int?" :> "AnyTorchOptionalIntType") @@
    ("int[]?" :> "AnyTorchOptionalListOfTorchIntType") @@
    ("bool" :> "Torch_BoolType") @@
    ("bool[]" :> "AnyTorchListOfTorchBoolType") @@
    ("bool?" :> "AnyTorchOptionalBoolType") @@
    ("float" :> "Torch_FloatType") @@
    ("float?" :> "AnyTorchOptionalFloatType") @@
    ("float[]" :> "AnyTorchListOfTorchFloatType") @@
    ("float[]?" :> "AnyTorchOptionalListOfTorchFloatType") @@
    ("t[]" :> "AnyTorchListType") @@
    ("t" :> "AnyTorchType") @@
    ("t1" :> "AnyTorchType") @@
    ("t2" :> "AnyTorchType") @@
    ("Any" :> "AnyTorchType") @@
    ("Device" :> "Torch_DeviceType") @@
    ("Device?" :> "AnyTorchOptionalDeviceType") @@
    ("Generator" :> "Torch_GeneratorType") @@
    ("Generator?" :> "AnyTorchOptionalGeneratorType") @@
    ("str" :> "Torch_StringType") @@
    ("str?" :> "AnyTorchOptionalStringType") @@
    ("str[]" :> "AnyTorchListOfTorchStringType") @@
    ("Dict" :> "Torch_DictType") @@
    ("__torch__.torch.classes.quantized.LinearPackedParamsBase" :> "Torch_LinearParamsType")

(* dict.get(key): the value, or None. *)
DictGet(d, key) ==
    IF key \in DOMAIN d THEN [is_none |-> FALSE, value |-> d[key]]
    ELSE [is_none |-> TRUE, value |-> ""]

NoException == [raised |-> FALSE, msg |-> ""]

(* A lookup under the spelling as given. *)
LookupUnnormalized(type) == type

(* if type.startswith("Dict("): type = "Dict" *)
NormalizeType(type) == IF StartsWith(type, "Dict(") THEN "Dict" ELSE type

(* A lookup that falls back to a default predicate and records it. *)
LookupDefaulting(key, found) ==
    [ods_type |-> IF found.is_none THEN "AnyTorchType" ELSE found.value,
     exc |-> NoException,
     table |-> IF found.is_none
               THEN (key :> "AnyTorchType") @@ TORCH_TYPE_TO_ODS_TYPE
               ELSE TORCH_TYPE_TO_ODS_TYPE]

(* The outcome of the lookup of key: the predicate, or the exception        *)
(* raised; table is the mapping as the call leaves it.                      *)
LookupResult(key, found) ==
    IF found.is_none
    THEN [ods_type |-> "",
          exc |-> [raised |-> TRUE,
                   msg |-> Repr(key) \o " not in TORCH_TYPE_TO_ODS_TYPE mapping. Please add it!"],
          table |-> TORCH_TYPE_TO_ODS_TYPE]
    ELSE [ods_type |-> found.value, exc |-> NoException,
          table |-> TORCH_TYPE_TO_ODS_TYPE]

get_ods_type(type) ==
    LookupResult(NormalizeType(type),
                 DictGet(TORCH_TYPE_TO_ODS_TYPE, NormalizeType(type)))

----------------------------------------------------------------------------
(* TextEmitter (utils.py): indentation-tracking line printer.              *)

INDENT == "  "

Indented(level, ls) == [i \in 1..Len(ls) |-> Repeat(INDENT, level) \o ls[i]]

(* TextEmitter.print at indentation level: one output line per line of s. *)
p_td(level, s) == Indented(level, SplitLines(s))

FirstQuote(s) ==
    CHOOSE j \in 1..Len(s) :
        /\ SubSeq(s, j, j) = "\""
        /\ \A k \in 1..(j - 1) : SubSeq(s, k, k) # "\""

RECURSIVE ReplaceQuotes(_)
ReplaceFrom(s, i) ==
    SubSeq(s, 1, i - 1) \o "\\\\\"" \o ReplaceQuotes(SubSeq(s, i + 1, Len(s)))

(* s.replace('"', '\\"') *)
ReplaceQuotes(s) ==
    IF ~Contains(s, "\"") THEN s ELSE ReplaceFrom(s, FirstQuote(s))

(* TextEmitter.quote *)
Quote(s) == "\"" \o ReplaceQuotes(s) \o "\""

(* with emitter_td.indent(): entering and leaving the scope; the scope is *)
(* left on normal completion and when an exception propagates through it.  *)
(* A scope that is entered and never left. *)
IndentLeftOpen(level) == level
IndentEnter(level) == level + 1
IndentExit(level) == level - 1

----------------------------------------------------------------------------
(* JitOperator (registry.py): the fields and methods the generator reads.  *)

Triple(operator) ==
    <<operator.namespace, operator.unqualified_name, operator.overload_name>>

TypesOf(entries) == [i \in 1..Len(entries) |-> entries[i].type]

UniqueKey(operator) ==
    LET dotted == IF operator.overload_name = "" THEN ""
                  ELSE "." \o operator.overload_name
        args == TypesOf(operator.arguments)
                    \o (IF operator.is_vararg THEN <<"...">> ELSE <<>>)
        rets == TypesOf(operator.returns)
                    \o (IF operator.is_varret THEN <<"...">> ELSE <<>>)
    IN  operator.namespace \o "::" \o operator.unqualified_name \o dotted
            \o " : (" \o Join(", ", args) \o ") -> (" \o Join(", ", rets) \o ")"

(* JitOperator.get_mlir_names: (op_name, cpp_class_name) *)
GetMlirNames(operator) ==
    LET atoms == <<operator.namespace, operator.unqualified_name>>
                    \o (IF operator.overload_name = "" THEN <<>>
                        ELSE <<operator.overload_name>>)
    IN  [op_name |-> Join(".", atoms),
         cpp_class_name |-> Join("_", atoms) \o "Op"]

HasValueSemantics(operator) == operator.value_semantics
IsReadonly(operator) == operator.readonly

----------------------------------------------------------------------------
(* raw_emit_op: the text of one definition block.                          *)

generic_result_name(multiple_results, i) ==
    "result" \o (IF multiple_results THEN Str(i) ELSE "")

(* ret["name"] or generic_result_name(e), e the zero-based position *)
ResultName(operator, i) ==
    IF operator.returns[i].name # "" THEN operator.returns[i].name
    ELSE generic_result_name(Len(operator.returns) > 1, i - 1)

ResultNames(operator) ==
    [i \in 1..Len(operator.returns) |-> ResultName(operator, i)]

(* The lookups a list comprehension performs, in order. *)
Lookups(entries) == [i \in 1..Len(entries) |-> get_ods_type(entries[i].type)]

(* Position of the first lookup that raises, 0 if none does. *)
FirstRaised(lookups) ==
    IF \E i \in 1..Len(lookups) : lookups[i].exc.raised
    THEN CHOOSE i \in 1..Len(lookups) :
            /\ lookups[i].exc.raised
            /\ \A j \in 1..(i - 1) : ~lookups[j].exc.raised
    ELSE 0

(* The exception a sequence of lookups ends with, if any. *)
RaisedBy(lookups, at) == IF at = 0 THEN NoException ELSE lookups[at].exc
Raised(lookups) == RaisedBy(lookups, FirstRaised(lookups))

ArgumentEntries(operator, found) ==
    [i \in 1..Len(found) |->
        found[i].ods_type \o ":$" \o operator.arguments[i].name]

ResultEntries(operator, found) ==
    [i \in 1..Len(found) |->
        found[i].ods_type \o ":$" \o ResultName(operator, i)]

(* A generator that takes the custom-hook route for variadic operators. *)
HooksForVariadic(operator) == ~(operator.is_vararg \/ operator.is_varret)

(* A generator that synthesizes an assembly format for every operator. *)
AlwaysAssemblyFormat(operator) == TRUE

(* The condition under which an assemblyFormat line is synthesized. *)
UsesAssemblyFormat(operator) == operator.is_vararg \/ operator.is_varret

(* An arrow in every format. *)
ArrowAlways(assembly_operand_types, assembly_result_types) == ARROW

(* An arrow whenever there is a result-type clause. *)
ArrowBeforeResults(assembly_operand_types, assembly_result_types) ==
    IF assembly_result_types # "" THEN ARROW ELSE ""

MaybeArrow(assembly_operand_types, assembly_result_types) ==
    IF assembly_operand_types # "" /\ assembly_result_types # ""
    THEN ARROW ELSE ""

AssemblyOperands(operator) ==
    IF operator.is_vararg THEN BT \o "(" \o BT \o " $operands " \o BT \o ")" \o BT
    ELSE Join(COMMA, [i \in 1..Len(operator.arguments) |->
                            "$" \o operator.arguments[i].name])

AssemblyOperandTypes(operator) ==
    IF operator.is_vararg THEN "qualified(type($operands))"
    ELSE Join(COMMA, [i \in 1..Len(operator.arguments) |->
            "qualified(type($" \o operator.arguments[i].name \o "))"])

AssemblyResultTypes(operator) ==
    IF operator.is_varret THEN "qualified(type($results))"
    ELSE Join(COMMA, [i \in 1..Len(operator.returns) |->
            "qualified(type($" \o ResultName(operator, i) \o "))"])

FormatOf(assembly_operands, assembly_operand_types, assembly_result_types) ==
    assembly_operands \o " attr-dict " \o BT \o ":" \o BT \o " "
        \o assembly_operand_types
        \o MaybeArrow(assembly_operand_types, assembly_result_types)
        \o assembly_result_types

AssemblyFormat(operator) ==
    FormatOf(AssemblyOperands(operator), AssemblyOperandTypes(operator),
             AssemblyResultTypes(operator))

HookText(cpp_class_name, nargs, nrets) ==
    "let extraClassDefinition = [{" \o NL
    \o "  ParseResult " \o cpp_class_name
        \o "::parse(OpAsmParser &parser, OperationState &result) {" \o NL
    \o "    return parseDefaultTorchOp(parser, result, " \o nargs \o ", " \o nrets \o ");" \o NL
    \o "  }" \o NL
    \o "  void " \o cpp_class_name \o "::print(OpAsmPrinter &printer) {" \o NL
    \o "    printDefaultTorchOp(printer, *this, " \o nargs \o ", " \o nrets \o ");" \o NL
    \o "  }" \o NL
    \o "}];" \o NL

ExtraClassDefinition(operator, cpp_class_name) ==
    HookText(cpp_class_name, Str(Len(operator.arguments)), Str(Len(operator.returns)))

(* A generator that writes the assembly format and the hooks as well. *)
BothSyntaxSections(operator, level) ==
    (IF UsesAssemblyFormat(operator)
     THEN p_td(level, "let assemblyFormat = " \o Quote(AssemblyFormat(operator)) \o ";")
     ELSE <<>>)
    \o p_td(level, "let hasCustomAssemblyFormat = 1;")
    \o p_td(level, ExtraClassDefinition(operator,
                        GetMlirNames(operator).cpp_class_name))

(* The assembly-format or custom-hook section, printed at level. *)
SyntaxSection(operator, level) ==
    IF UsesAssemblyFormat(operator)
    THEN p_td(level, "let assemblyFormat = " \o Quote(AssemblyFormat(operator)) \o ";")
    ELSE p_td(level, "let hasCustomAssemblyFormat = 1;")
            \o p_td(level, ExtraClassDefinition(operator,
                                GetMlirNames(operator).cpp_class_name))

(* The lines up to and including the opening of the argument list. *)
HeadLines(operator, names, level, traits) ==
    p_td(level, "def Torch_" \o names.cpp_class_name \o " : Torch_Op<"
                    \o Quote(names.op_name) \o ", [")
    \o p_td(level + 2, Join("," \o NL, traits))
    \o p_td(level + 1, "]> {")
    \o p_td(level + 1, "let summary = "
                    \o Quote("Generated op for " \o BT \o UniqueKey(operator) \o BT) \o ";")
    \o p_td(level + 1, "let arguments = (ins")

(* A generator that resolves the declared argument types of every operator. *)
ArgLookupsOfDeclared(operator) == Lookups(operator.arguments)

(* The lookups of the argument types: none for a vararg operator. *)
ArgLookups(operator) ==
    IF operator.is_vararg THEN <<>> ELSE Lookups(operator.arguments)

ArgLines(operator, level, found) ==
    IF operator.is_vararg THEN p_td(level, "Variadic<AnyTorchType>:$operands")
    ELSE p_td(level, Join("," \o NL, ArgumentEntries(operator, found)))

MidLines(level) == p_td(level, ");") \o p_td(level, "let results = (outs")

RetLookups(operator) ==
    IF operator.is_varret THEN <<>> ELSE Lookups(operator.returns)

RetLines(operator, level, found) ==
    IF operator.is_varret THEN p_td(level, "Variadic<AnyTorchType>:$results")
    ELSE p_td(level, Join("," \o NL, ResultEntries(operator, found)))

(* A generator whose canonicalizer marker needs the folder flag as well. *)
CanonicalizerNeedsFolder(operator, level, has_folder, has_canonicalizer) ==
    p_td(level + 1, ");")
    \o SyntaxSection(operator, level + 1)
    \o (IF has_folder THEN p_td(level + 1, "let hasFolder = 1;") ELSE <<>>)
    \o (IF has_folder /\ has_canonicalizer
        THEN p_td(level + 1, "let hasCanonicalizer = 1;") ELSE <<>>)
    \o p_td(level, "}")
    \o p_td(level, NL)

TailLines(operator, level, has_folder, has_canonicalizer) ==
    p_td(level + 1, ");")
    \o SyntaxSection(operator, level + 1)
    \o (IF has_folder THEN p_td(level + 1, "let hasFolder = 1;") ELSE <<>>)
    \o (IF has_canonicalizer THEN p_td(level + 1, "let hasCanonicalizer = 1;") ELSE <<>>)
    \o p_td(level, "}")
    \o p_td(level, NL)

(* The call's outcome: it ends at the first lookup that raises, inside the  *)
(* two nested indentation scopes, which are both left.                      *)
RawOutcome(level, head, arg_exc, args, mid, ret_exc, rets, tail) ==
    IF arg_exc.raised
    THEN [lines |-> head, exc |-> arg_exc,
          indent_level |-> IndentExit(IndentExit(IndentEnter(IndentEnter(level))))]
    ELSE IF ret_exc.raised
    THEN [lines |-> head \o args \o mid, exc |-> ret_exc,
          indent_level |-> IndentExit(IndentExit(IndentEnter(IndentEnter(level))))]
    ELSE [lines |-> head \o args \o mid \o rets \o tail, exc |-> NoException,
          indent_level |-> IndentExit(IndentEnter(level))]

(* raw_emit_op at indentation level: the lines written, the exception that  *)
(* ends the call early (if any), and the indentation level left.            *)
raw_emit_op(operator, level, traits, has_folder, has_canonicalizer) ==
    RawOutcome(level,
        HeadLines(operator, GetMlirNames(operator), level, traits),
        Raised(ArgLookups(operator)),
        ArgLines(operator, level + 2, ArgLookups(operator)),
        MidLines(level + 1),
        Raised(RetLookups(operator)),
        RetLines(operator, level + 2, RetLookups(operator)),
        TailLines(operator, level, has_folder, has_canonicalizer))

----------------------------------------------------------------------------
(* emit_op: trait deduction, then raw_emit_op.                             *)

(* The inferred traits placed in front of the caller's. *)
InferredFirst(operator, explicit) ==
    <<"AllowsTypeRefinement">>
        \o (IF HasValueSemantics(operator) THEN <<"HasValueSemantics">> ELSE <<>>)
        \o (IF IsReadonly(operator) THEN <<"ReadOnly">> ELSE <<>>)
        \o explicit

(* The list after the three traits += [...] statements. *)
ExtendTraits(operator, explicit) ==
    explicit
        \o <<"AllowsTypeRefinement">>
        \o (IF HasValueSemantics(operator) THEN <<"HasValueSemantics">> ELSE <<>>)
        \o (IF IsReadonly(operator) THEN <<"ReadOnly">> ELSE <<>>)

(* A traits argument: None, or a list object. *)
NoTraits == [is_none |-> TRUE, items |-> <<>>]
TraitList(items) == [is_none |-> FALSE, items |-> items]

WithTraits(raw, list) ==
    [lines |-> raw.lines, exc |-> raw.exc, indent_level |-> raw.indent_level,
     traits |-> list]

EmitWith(operator, level, list, has_folder, has_canonicalizer) ==
    WithTraits(raw_emit_op(operator, level, list, has_folder, has_canonicalizer), list)

(* emit_op: traits is the list handed to raw_emit_op, which is the list     *)
(* object the caller passed (extended in place) unless None was passed.     *)
emit_op(operator, level, traits, has_folder, has_canonicalizer) ==
    EmitWith(operator, level,
             ExtendTraits(operator, IF traits.is_none THEN <<>> ELSE traits.items),
             has_folder, has_canonicalizer)

----------------------------------------------------------------------------
(* Registry (registry.py): lookup by unique key and by triple.             *)

(* Stands for "no object" where a lookup raised. *)
NoOperator ==
    [namespace |-> "", unqualified_name |-> "", overload_name |-> "",
     arguments |-> <<>>, returns |-> <<>>, is_vararg |-> FALSE, is_varret |-> FALSE,
     value_semantics |-> FALSE, readonly |-> FALSE]

(* registry[key] *)
RegistryGetItem(key) ==
    IF \E o \in registry : UniqueKey(o) = key
    THEN [operator |-> CHOOSE o \in registry : UniqueKey(o) = key,
          exc |-> NoException]
    ELSE [operator |-> NoOperator,
          exc |-> [raised |-> TRUE, msg |-> "KeyError: " \o Repr(key)]]

(* registry.get_by_triple(triple) *)
GetByTriple(triple) ==
    IF \E o \in registry : Triple(o) = triple
    THEN [operator |-> CHOOSE o \in registry : Triple(o) = triple,
          exc |-> NoException]
    ELSE [operator |-> NoOperator,
          exc |-> [raised |-> TRUE,
                   msg |-> "KeyError: (" \o Repr(triple[1]) \o ", " \o Repr(triple[2])
                            \o ", " \o Repr(triple[3]) \o ")"]]

----------------------------------------------------------------------------
(* emit_ops: the two local helpers.                                        *)

(* A derivation that keeps the overload of the base in every case. *)
VariantTripleKeepingOverload(operator) ==
    <<operator.namespace, operator.unqualified_name \o "_", operator.overload_name>>

(* The triple under which the in-place variant is looked up. *)
VariantTriple(operator) ==
    LET is_functional_op == operator.overload_name = "functional"
    IN  <<operator.namespace,
          operator.unqualified_name \o "_",
          IF ~is_functional_op THEN operator.overload_name ELSE "">>

(* The explicit traits passed for the variant. *)
VariantTraits(operator) ==
    LET is_functional_op == operator.overload_name = "functional"
    IN  IF ~is_functional_op THEN <<"IsTrailingUnderscoreInplaceVariant">> ELSE <<>>

----------------------------------------------------------------------------
(* The operators, registries and catalogs the runs are drawn from.         *)

ArgNames == <<"self", "other", "alpha", "beta", "gamma">>
RetNames == <<"values", "indices", "extra", "more", "rest">>
ArgTypes == {"Tensor", "Complex", "Dict(str, t)"}

Operator(ns, name, overload, arguments, returns, vararg, varret, hvs, ro) ==
    [namespace |-> ns, unqualified_name |-> name, overload_name |-> overload,
     arguments |-> arguments, returns |-> returns,
     is_vararg |-> vararg, is_varret |-> varret,
     value_semantics |-> hvs, readonly |-> ro]

(* Argument lists of up to MaxArgs entries: Tensor everywhere but at one    *)
(* position, which takes each type of ArgTypes.                             *)
ArgLists ==
    {<<>>} \cup
    { [i \in 1..n |-> [name |-> ArgNames[i],
                       type |-> IF i = p THEN t ELSE "Tensor"]] :
        n \in 1..MaxArgs, p \in 1..MaxArgs, t \in ArgTypes }

(* Return lists of up to MaxRets entries: unnamed; all named; the first     *)
(* named result1 and the others unnamed; unnamed with one unmapped type.    *)
RetLists ==
    {<<>>} \cup
    { [i \in 1..n |-> [name |-> "", type |-> "Tensor"]] : n \in 1..MaxRets } \cup
    { [i \in 1..n |-> [name |-> RetNames[i], type |-> "Tensor"]] : n \in 1..MaxRets } \cup
    { [i \in 1..n |-> [name |-> IF i = 1 THEN "result1" ELSE "", type |-> "Tensor"]] :
        n \in 1..MaxRets } \cup
    { [i \in 1..n |-> [name |-> "", type |-> IF i = p THEN "Complex" ELSE "Tensor"]] :
        n \in 1..MaxRets, p \in 1..MaxRets }

Overloads == {"", "Tensor", "functional"}

DefaultArgs == <<[name |-> "self", type |-> "Tensor"]>>
DefaultRets == <<[name |-> "", type |-> "Tensor"]>>

DefaultKwargs ==
    [traits |-> NoTraits, has_folder |-> FALSE, has_canonicalizer |-> FALSE]

(* The keyword arguments the catalogs use. *)
KwargsPool ==
    { [traits |-> t, has_folder |-> FALSE, has_canonicalizer |-> FALSE] :
        t \in {NoTraits, TraitList(<<"Pure">>), TraitList(<<"HasValueSemantics">>),
               TraitList(<<"Pure", "Pure">>)} }
    \cup
    { [traits |-> NoTraits, has_folder |-> f, has_canonicalizer |-> c] :
        f \in BOOLEAN, c \in BOOLEAN }
    \cup
    { [traits |-> TraitList(<<"DeclareOpInterfaceMethods<CastOpInterface>", "Pure">>),
       has_folder |-> TRUE, has_canonicalizer |-> FALSE] }

(* The keyword arguments the catalogs pass to emit_with_mutating_variants. *)
VariantKwargsPool ==
    { DefaultKwargs,
      [traits |-> NoTraits, has_folder |-> FALSE, has_canonicalizer |-> TRUE],
      [traits |-> TraitList(<<"Pure">>), has_folder |-> TRUE, has_canonicalizer |-> TRUE] }

Entry(fn, key, kwargs) == [fn |-> fn, key |-> key, kwargs |-> kwargs]

(* Type spellings looked up directly. *)
Spellings ==
    DOMAIN TableInit \cup
    {"Complex", "", "Dict(str, t)", "Dict(str, Tensor)", "Dict(", "Dict()", "Dic",
     "dict(str, t)", " Dict(str, t)", "Tensor ", "tensor", "Tensor??", "...", "Dict[str]"}

NoCall ==
    [fn |-> "", key |-> "", kwargs |-> DefaultKwargs, out_before |-> <<>>,
     traits_before |-> <<>>, exc |-> NoException, triple |-> <<"", "", "">>,
     result |-> "", blocks |-> 0]

(* main: the banner is printed before emit_ops runs. *)
ODS_BANNER ==
    "//===-------------------------------------------------------*- tablegen -*-===//" \o NL
    \o "//" \o NL
    \o "// This file is licensed under the Apache License v2.0 with LLVM Exceptions." \o NL
    \o "// See https://llvm.org/LICENSE.txt for license information." \o NL
    \o "// SPDX-License-Identifier: Apache-2.0 WITH LLVM-exception" \o NL
    \o "// Also available under a BSD-style license. See LICENSE." \o NL
    \o "//" \o NL
    \o "// This file is automatically generated.  Please do not edit." \o NL
    \o "//" \o NL
    \o "//===----------------------------------------------------------------------===//" \o NL
    \o NL \o NL

InitCommon ==
    /\ out = p_td(0, ODS_BANNER)
    /\ indent_level = 0
    /\ TORCH_TYPE_TO_ODS_TYPE = TableInit
    /\ emitted = <<>>
    /\ last = NoCall
    /\ status = "running"
    /\ calls = 0

(* Runs over one operator of every shape. *)
InitShapes ==
    /\ \E a \in ArgLists, r \in RetLists, va \in BOOLEAN, vr \in BOOLEAN :
          registry = {Operator("aten", "op", "", a, r, va, vr, TRUE, TRUE)}
    /\ catalog = { Entry("emit", UniqueKey(o), DefaultKwargs) : o \in registry }
    /\ caller_traits = <<>>

(* Runs over one operator with every outcome of the semantic predicates,    *)
(* every keyword-argument combination, and a caller-owned trait list.       *)
InitTraits ==
    /\ \E hvs \in BOOLEAN, ro \in BOOLEAN, va \in BOOLEAN :
          registry = {Operator("aten", "relu", "", DefaultArgs, DefaultRets,
                               va, FALSE, hvs, ro)}
    /\ catalog = { Entry("emit", UniqueKey(o), k) : o \in registry, k \in KwargsPool }
                    \cup { Entry("emit_op", UniqueKey(o), DefaultKwargs) : o \in registry }
    /\ caller_traits \in {<<>>, <<"Pure">>, <<"HasValueSemantics">>}

(* Runs over a base operator of every overload kind, with its in-place      *)
(* variant registered, missing, or registered under the other overload.     *)
InitVariants ==
    /\ \E ov \in Overloads,
          vs \in {{}, Overloads} \cup {{v} : v \in Overloads},
          bad \in BOOLEAN :
          registry =
              {Operator("aten", "add", ov, DefaultArgs, DefaultRets, FALSE, FALSE, TRUE, TRUE)}
              \cup
              { Operator("aten", "add_", v,
                         <<[name |-> "self", type |-> IF bad THEN "Complex" ELSE "Tensor"]>>,
                         DefaultRets, FALSE, FALSE, FALSE, FALSE) : v \in vs }
    /\ catalog =
          { Entry("emit_with_mutating_variants", UniqueKey(o), k) :
                o \in {b \in registry : b.unqualified_name = "add"}, k \in VariantKwargsPool }
          \cup { Entry("emit", UniqueKey(o), DefaultKwargs) : o \in registry }
          \cup { Entry("emit", "aten::sub : (Tensor) -> (Tensor)", DefaultKwargs),
                 Entry("emit_with_mutating_variants",
                       "aten::sub : (Tensor) -> (Tensor)", DefaultKwargs) }
    /\ caller_traits = <<>>

(* Runs of direct lookups in the type table. *)
InitLookups ==
    /\ registry = {}
    /\ catalog = { Entry("get_ods_type", t, DefaultKwargs) : t \in Spellings }
    /\ caller_traits = <<>>

Init ==
    /\ InitCommon
    /\ \/ InitShapes
       \/ InitTraits
       \/ InitVariants
       \/ InitLookups

----------------------------------------------------------------------------
(* The calls.  An exception that leaves a call propagates out of emit_ops   *)
(* and main: the run is over.                                              *)

Block(fn, operator, explicit, kwargs, r, first) ==
    [fn |-> fn, operator |-> operator, explicit |-> explicit, traits |-> r.traits,
     has_folder |-> kwargs.has_folder, has_canonicalizer |-> kwargs.has_canonicalizer,
     first |-> first, last |-> first + Len(r.lines) - 1, exc |-> r.exc,
     call |-> calls + 1]

Called(e, exc, triple, result, blocks) ==
    [fn |-> e.fn, key |-> e.key, kwargs |-> e.kwargs, out_before |-> out,
     traits_before |-> caller_traits, exc |-> exc, triple |-> triple,
     result |-> result, blocks |-> blocks]

(* A run that goes on to the next catalog entry after a failure. *)
SkipAndContinue(exc) == "running"

Outcome(exc) == IF exc.raised THEN "aborted" ELSE "running"

Abort(e, exc, triple) ==
    /\ last' = Called(e, exc, triple, "", 0)
    /\ status' = "aborted"
    /\ UNCHANGED <<out, indent_level, emitted>>

(* One emit_op call has run (to its end or to an exception). *)
Emitted1(e, exc, triple, r1, b1) ==
    /\ out' = out \o r1.lines
    /\ indent_level' = r1.indent_level
    /\ emitted' = Append(emitted, b1)
    /\ last' = Called(e, exc, triple, "", 1)
    /\ status' = Outcome(exc)

(* Two emit_op calls whose text reaches the sink variant first. *)
VariantBlockFirst(e, triple, r1, b1, r2, b2) ==
    /\ out' = out \o r2.lines \o r1.lines
    /\ indent_level' = r2.indent_level
    /\ emitted' = Append(Append(emitted, b1), b2)
    /\ last' = Called(e, r2.exc, triple, "", 2)
    /\ status' = Outcome(r2.exc)

(* Two emit_op calls have run. *)
Emitted2(e, triple, r1, b1, r2, b2) ==
    /\ out' = out \o r1.lines \o r2.lines
    /\ indent_level' = r2.indent_level
    /\ emitted' = Append(Append(emitted, b1), b2)
    /\ last' = Called(e, r2.exc, triple, "", 2)
    /\ status' = Outcome(r2.exc)

EmitDone(e, operator, r) ==
    Emitted1(e, r.exc, <<"", "", "">>, r,
             Block(e.fn, operator, e.kwargs.traits, e.kwargs, r, Len(out) + 1))

EmitFound(e, found) ==
    IF found.exc.raised THEN Abort(e, found.exc, <<"", "", "">>)
    ELSE EmitDone(e, found.operator,
                  emit_op(found.operator, indent_level, e.kwargs.traits,
                          e.kwargs.has_folder, e.kwargs.has_canonicalizer))

(* emit(key, **kwargs) *)
Emit(e) ==
    /\ status = "running" /\ calls < MaxCalls
    /\ e \in catalog /\ e.fn = "emit"
    /\ EmitFound(e, RegistryGetItem(e.key))
    /\ calls' = calls + 1
    /\ UNCHANGED <<registry, catalog, TORCH_TYPE_TO_ODS_TYPE, caller_traits>>

(* A variant emitted with both markers. *)
VariantWithMarkers(operator) ==
    [traits |-> TraitList(VariantTraits(operator)),
     has_folder |-> TRUE, has_canonicalizer |-> TRUE]

VariantKwargs(operator) ==
    [traits |-> TraitList(VariantTraits(operator)),
     has_folder |-> FALSE, has_canonicalizer |-> FALSE]

VariantDone(e, triple, r1, b1, variant, vkwargs, r2) ==
    Emitted2(e, triple, r1, b1, r2,
             Block(e.fn, variant, vkwargs.traits, vkwargs, r2, Len(out) + Len(r1.lines) + 1))

VariantFound(e, triple, r1, b1, variant, vkwargs) ==
    IF variant.exc.raised THEN Emitted1(e, variant.exc, triple, r1, b1)
    ELSE VariantDone(e, triple, r1, b1, variant.operator, vkwargs,
                     emit_op(variant.operator, r1.indent_level, vkwargs.traits,
                             vkwargs.has_folder, vkwargs.has_canonicalizer))

BaseDone(e, operator, r1, b1, triple) ==
    IF r1.exc.raised THEN Emitted1(e, r1.exc, <<"", "", "">>, r1, b1)
    ELSE VariantFound(e, triple, r1, b1, GetByTriple(triple), VariantKwargs(operator))

BaseEmitted(e, operator, r1) ==
    BaseDone(e, operator, r1,
             Block(e.fn, operator, e.kwargs.traits, e.kwargs, r1, Len(out) + 1),
             VariantTriple(operator))

BaseFound(e, found) ==
    IF found.exc.raised THEN Abort(e, found.exc, <<"", "", "">>)
    ELSE BaseEmitted(e, found.operator,
                     emit_op(found.operator, indent_level, e.kwargs.traits,
                             e.kwargs.has_folder, e.kwargs.has_canonicalizer))

(* emit_with_mutating_variants(key, **kwargs) *)
EmitWithMutatingVariants(e) ==
    /\ status = "running" /\ calls < MaxCalls
    /\ e \in catalog /\ e.fn = "emit_with_mutating_variants"
    /\ BaseFound(e, RegistryGetItem(e.key))
    /\ calls' = calls + 1
    /\ UNCHANGED <<registry, catalog, TORCH_TYPE_TO_ODS_TYPE, caller_traits>>

CallerListDone(e, operator, r) ==
    /\ Emitted1(e, r.exc, <<"", "", "">>, r,
                Block(e.fn, operator, TraitList(caller_traits), e.kwargs, r, Len(out) + 1))
    /\ caller_traits' = r.traits

CallerListFound(e, found) ==
    /\ ~found.exc.raised
    /\ CallerListDone(e, found.operator,
                      emit_op(found.operator, indent_level, TraitList(caller_traits),
                              e.kwargs.has_folder, e.kwargs.has_canonicalizer))

(* emit_op(operator, emitter_td, traits=caller_traits): the caller passes   *)
(* a list object it keeps.                                                  *)
EmitOpWithCallerList(e) ==
    /\ status = "running" /\ calls < MaxCalls
    /\ e \in catalog /\ e.fn = "emit_op"
    /\ CallerListFound(e, RegistryGetItem(e.key))
    /\ calls' = calls + 1
    /\ UNCHANGED <<registry, catalog, TORCH_TYPE_TO_ODS_TYPE>>

LookedUp(e, r) ==
    /\ TORCH_TYPE_TO_ODS_TYPE' = r.table
    /\ last' = Called(e, r.exc, <<"", "", "">>, r.ods_type, 0)
    /\ status' = Outcome(r.exc)

(* get_ods_type(type), called directly *)
GetOdsType(e) ==
    /\ status = "running" /\ calls < MaxCalls
    /\ e \in catalog /\ e.fn = "get_ods_type"
    /\ LookedUp(e, get_ods_type(e.key))
    /\ calls' = calls + 1
    /\ UNCHANGED <<registry, catalog, out, indent_level, caller_traits, emitted>>

Next ==
    \/ \E e \in catalog : Emit(e)
    \/ \E e \in catalog : EmitWithMutatingVariants(e)
    \/ \E e \in catalog : EmitOpWithCallerList(e)
    \/ \E e \in catalog : GetOdsType(e)

Spec == Init /\ [][Next]_vars

----------------------------------------------------------------------------
(* Reading the sink: the lines of the block an emit_op call wrote.         *)

Completed(b) == ~b.exc.raised

(* The lines of the block, indentation removed. *)
Text(b) == [k \in 1..(b.last - b.first + 1) |-> LStrip(out[b.first + k - 1])]

(* Some line starts with prefix. *)
HasLine(ls, prefix) == \E k \in 1..Len(ls) : StartsWith(ls[k], prefix)

CountLines(ls, prefix) == Cardinality({k \in 1..Len(ls) : StartsWith(ls[k], prefix)})

HasExactLine(ls, text) == \E k \in 1..Len(ls) : ls[k] = text

HasFormatLine(ls) == HasLine(ls, "let assemblyFormat = ")

FormatLine(ls) == ls[CHOOSE k \in 1..Len(ls) : StartsWith(ls[k], "let assemblyFormat = ")]

HasCustomMarker(ls) == HasExactLine(ls, "let hasCustomAssemblyFormat = 1;")

HasParseHook(ls) == HasLine(ls, "return parseDefaultTorchOp(")
HasPrintHook(ls) == HasLine(ls, "printDefaultTorchOp(")

(* The parse and print hooks carry the counts nargs, nrets. *)
HooksCarry(ls, nargs, nrets) ==
    /\ HasExactLine(ls, "return parseDefaultTorchOp(parser, result, "
                            \o ToString(nargs) \o ", " \o ToString(nrets) \o ");")
    /\ HasExactLine(ls, "printDefaultTorchOp(printer, *this, "
                            \o ToString(nargs) \o ", " \o ToString(nrets) \o ");")

(* The text of line after its first occurrence of sub. *)
After(line, sub) ==
    IF Contains(line, sub)
    THEN SubSeq(line,
                (CHOOSE i \in 1..(Len(line) - Len(sub) + 1) :
                    /\ SubSeq(line, i, i + Len(sub) - 1) = sub
                    /\ \A j \in 1..(i - 1) : SubSeq(line, j, j + Len(sub) - 1) # sub)
                    + Len(sub),
                Len(line))
    ELSE ""

(* The type clauses of an assemblyFormat line: what stands between the     *)
(* quoted colon and the closing quote.                                     *)
TypeClauses(line) ==
    SubSeq(After(line, "attr-dict " \o BT \o ":" \o BT \o " "), 1,
           Len(After(line, "attr-dict " \o BT \o ":" \o BT \o " ")) - 2)

HasArrow(text) == Contains(text, BT \o "->" \o BT)

Variadic(operator) == operator.is_vararg \/ operator.is_varret

Blocks == {emitted[i] : i \in 1..Len(emitted)}

(* The blocks written by the most recent call. *)
NewBlocks == {b \in Blocks : b.call = calls}

----------------------------------------------------------------------------
----------------------------------------------------------------------------
----------------------------------------------------------------------------
(* Reading the last call of emit_with_mutating_variants.                   *)

NoTriple == <<"", "", "">>

(* The call got as far as deriving the variant triple. *)
DerivedVariant == last.fn = "emit_with_mutating_variants" /\ last.triple # NoTriple

(* The block of the base operator written by the last call. *)
BaseBlock == emitted[Len(emitted) - last.blocks + 1]

(* The block of the variant written by the last call, when there are two. *)
VariantBlock == emitted[Len(emitted)]

VariantMissing == DerivedVariant /\ ~\E o \in registry : Triple(o) = last.triple

(* C4: Mutating-variant resolution as claimed: the variant is looked up    *)
(* under (ns, name + "_", overload') where overload' is empty if and only  *)
(* if the base overload is "functional" and otherwise equals the base      *)
(* overload; the variant's explicit traits contain the pairing trait if    *)
(* and only if the base overload is not "functional".                      *)
C4_VariantResolutionAsClaimed ==
    DerivedVariant =>
        /\ last.triple[1] = BaseBlock.operator.namespace
        /\ last.triple[2] = BaseBlock.operator.unqualified_name \o "_"
        /\ last.triple[3] = "" <=> BaseBlock.operator.overload_name = "functional"
        /\ BaseBlock.operator.overload_name # "functional" =>
                last.triple[3] = BaseBlock.operator.overload_name
        /\ last.blocks = 2 =>
                /\ Triple(VariantBlock.operator) = last.triple
                /\ (\E i \in 1..Len(VariantBlock.explicit.items) :
                        VariantBlock.explicit.items[i] = "IsTrailingUnderscoreInplaceVariant")
                    <=> BaseBlock.operator.overload_name # "functional"

(* C4 as amended: the variant is looked up under (ns, name + "_",          *)
(* overload') where overload' is empty if the base overload is             *)
(* "functional" and is the base overload, empty or not, otherwise; the     *)
(* variant emitted is the operator registered under that triple, and its   *)
(* explicit traits are the pairing trait alone if the base overload is not *)
(* "functional" and no trait if it is.                                     *)
C4_VariantResolution ==
    DerivedVariant =>
        /\ last.triple[1] = BaseBlock.operator.namespace
        /\ last.triple[2] = BaseBlock.operator.unqualified_name \o "_"
        /\ last.triple[3] = IF BaseBlock.operator.overload_name = "functional"
                            THEN "" ELSE BaseBlock.operator.overload_name
        /\ UniqueKey(BaseBlock.operator) = last.key
        /\ last.blocks = 2 =>
                /\ Triple(VariantBlock.operator) = last.triple
                /\ VariantBlock.operator \in registry
                /\ ~VariantBlock.explicit.is_none
                /\ VariantBlock.explicit.items =
                        IF BaseBlock.operator.overload_name = "functional"
                        THEN <<>> ELSE <<"IsTrailingUnderscoreInplaceVariant">>
                /\ Completed(VariantBlock) =>
                        HasExactLine(Text(VariantBlock), "IsTrailingUnderscoreInplaceVariant,")
                            <=> BaseBlock.operator.overload_name # "functional"

C4_Witness ==
    /\ DerivedVariant /\ last.blocks = 2
    /\ BaseBlock.operator.overload_name = "functional"
    /\ VariantBlock.operator.overload_name = ""
    /\ VariantBlock.operator.unqualified_name = "add_"
    /\ Completed(VariantBlock)

----------------------------------------------------------------------------
(* C5: Atomicity of paired emission: when emit_with_mutating_variants      *)
(* fails because the derived variant triple is absent from the registry,   *)
(* the sink holds exactly the text it held before the call.                *)
C5_PairedEmissionAtomic ==
    (VariantMissing /\ last.exc.raised) => out = last.out_before

----------------------------------------------------------------------------
(* Reading the trait list of a block: the lines between the def line and   *)
(* the closing bracket, each without its separating comma.                 *)

StripComma(line) ==
    IF Len(line) > 0 /\ SubSeq(line, Len(line), Len(line)) = ","
    THEN SubSeq(line, 1, Len(line) - 1) ELSE line

(* The number of lines before the closing bracket of the trait list. *)
TraitsEnd(ls) == CHOOSE k \in 1..Len(ls) :
                    /\ ls[k] = "]> {"
                    /\ \A j \in 1..(k - 1) : ls[j] # "]> {"

PrintedTraits(ls) == [k \in 1..(TraitsEnd(ls) - 2) |-> StripComma(ls[k + 1])]

(* The traits emit_op infers for the operator of a block. *)
Inferred(b) ==
    <<"AllowsTypeRefinement">>
        \o (IF b.operator.value_semantics THEN <<"HasValueSemantics">> ELSE <<>>)
        \o (IF b.operator.readonly THEN <<"ReadOnly">> ELSE <<>>)

(* C6: Trait order as claimed: the trait list handed to raw_emit_op, and   *)
(* printed, is AllowsTypeRefinement, then HasValueSemantics if             *)
(* has_value_semantics() holds, then ReadOnly if is_readonly() holds, and  *)
(* only then the explicit traits in their given order.                     *)
C6_InferredThenExplicit ==
    \A b \in NewBlocks :
        /\ b.traits = Inferred(b) \o b.explicit.items
        /\ Completed(b) => PrintedTraits(Text(b)) = Inferred(b) \o b.explicit.items

(* C6 as amended: the trait list handed to raw_emit_op, and printed one    *)
(* trait per line, is the explicit traits in their given order, followed   *)
(* by AllowsTypeRefinement, then HasValueSemantics if                      *)
(* has_value_semantics() holds, then ReadOnly if is_readonly() holds.      *)
C6_ExplicitThenInferred ==
    \A b \in NewBlocks :
        /\ b.traits = b.explicit.items \o Inferred(b)
        /\ Completed(b) => PrintedTraits(Text(b)) = b.explicit.items \o Inferred(b)

C6_Witness ==
    \E b \in Blocks :
        /\ Completed(b)
        /\ b.explicit.items = <<"DeclareOpInterfaceMethods<CastOpInterface>", "Pure">>
        /\ b.operator.value_semantics /\ b.operator.readonly
        /\ PrintedTraits(Text(b)) =
                <<"DeclareOpInterfaceMethods<CastOpInterface>", "Pure",
                  "AllowsTypeRefinement", "HasValueSemantics", "ReadOnly">>

----------------------------------------------------------------------------
(* C7: Trait de-duplication: the printed trait list of every completed     *)
(* block holds each trait identifier at most once, and holds every trait   *)
(* of the explicit list and every inferred trait.                          *)
C7_TraitsDeduplicated ==
    \A b \in NewBlocks :
        LET printed == PrintedTraits(Text(b)) IN
        Completed(b) =>
            /\ \A i \in 1..Len(printed), j \in 1..Len(printed) :
                    printed[i] = printed[j] => i = j
            /\ {printed[i] : i \in 1..Len(printed)} =
                    {b.traits[i] : i \in 1..Len(b.traits)}

----------------------------------------------------------------------------
(* Reading two successive emit_op calls that pass the same list object.    *)

CallerListBlocks == {b \in Blocks : b.fn = "emit_op"}

(* C8: Trait ordering idempotence: two emit_op calls with the same         *)
(* operator and the same explicit-trait list object hand identical         *)
(* ordered trait lists to raw_emit_op, and the caller's list is the same   *)
(* after a call as before it.                                              *)
C8_TraitOrderIdempotent ==
    /\ \A b1 \in CallerListBlocks, b2 \in CallerListBlocks :
            b1.operator = b2.operator => b1.traits = b2.traits
    /\ last.fn = "emit_op" => caller_traits = last.traits_before

----------------------------------------------------------------------------
(* Reading the results of a block: the lines between the opening of the    *)
(* results list and its closing parenthesis.                               *)

ResultsStart(ls) == CHOOSE k \in 1..Len(ls) : ls[k] = "let results = (outs"

ResultsStop(ls) == CHOOSE k \in (ResultsStart(ls) + 1)..Len(ls) :
                        /\ ls[k] = ");"
                        /\ \A j \in (ResultsStart(ls) + 1)..(k - 1) : ls[j] # ");"

(* The names of the results as printed, in order. *)
PrintedResultNames(ls) ==
    [i \in 1..(ResultsStop(ls) - ResultsStart(ls) - 1) |->
        After(StripComma(ls[ResultsStart(ls) + i]), ":$")]

(* C9: Result naming: in a completed block of an operator that is not      *)
(* varret, a return without an explicit name is printed as result when the *)
(* operator has exactly one return and as result<i>, i its zero-based      *)
(* position, when it has more than one; and the printed names of the       *)
(* results, explicit or synthesized, are pairwise distinct.                *)
C9_ResultNamesUnique ==
    \A b \in NewBlocks :
        LET names == PrintedResultNames(Text(b)) IN
        (Completed(b) /\ ~b.operator.is_varret) =>
            /\ Len(names) = Len(b.operator.returns)
            /\ \A i \in 1..Len(names) :
                    b.operator.returns[i].name = "" =>
                        names[i] = IF Len(b.operator.returns) = 1 THEN "result"
                                   ELSE "result" \o ToString(i - 1)
            /\ \A i \in 1..Len(names), j \in 1..Len(names) :
                    names[i] = names[j] => i = j

----------------------------------------------------------------------------
(* C10: get_ods_type is a pure lookup with a hard failure: called with a   *)
(* spelling that is a key of the table it returns that key's predicate     *)
(* (Tensor?[] gives the list-of-optional-tensor predicate); called with a  *)
(* spelling that is not a key and does not start with Dict( it raises an   *)
(* error whose message names the spelling and returns nothing; and the     *)
(* table is never changed.                                                 *)
C10_HardLookupFailure ==
    /\ TORCH_TYPE_TO_ODS_TYPE = TableInit
    /\ last.fn = "get_ods_type" =>
        /\ last.key \in DOMAIN TableInit =>
                ~last.exc.raised /\ last.result = TableInit[last.key]
        /\ last.key = "Tensor?[]" => last.result = "AnyTorchListOfOptionalTensorType"
        /\ (last.key \notin DOMAIN TableInit /\ ~StartsWith(last.key, "Dict(")) =>
                /\ last.exc.raised
                /\ StartsWith(last.exc.msg, "'" \o last.key \o "' not in ")
                /\ last.result = ""
                /\ status = "aborted"

C10_Witness ==
    /\ last.fn = "get_ods_type" /\ last.key = "Complex"
    /\ last.exc.raised /\ Contains(last.exc.msg, "'Complex'")
    /\ calls = 2

----------------------------------------------------------------------------
(* C11: Dictionary normalization: get_ods_type called with a spelling that *)
(* starts with Dict( returns Torch_DictType, the predicate of the bare     *)
(* Dict key, whatever follows the prefix, and does not raise; so any two   *)
(* such spellings resolve to the same predicate. In a block, an argument   *)
(* of such a type is printed with that predicate.                          *)
C11_DictNormalized ==
    /\ (last.fn = "get_ods_type" /\ StartsWith(last.key, "Dict(")) =>
            /\ ~last.exc.raised
            /\ last.result = "Torch_DictType"
            /\ last.result = TableInit["Dict"]
            /\ status = "running"
    /\ \A b \in NewBlocks :
            (Completed(b) /\ ~b.operator.is_vararg) =>
                \A i \in 1..Len(b.operator.arguments) :
                    StartsWith(b.operator.arguments[i].type, "Dict(") =>
                        \E k \in 1..Len(Text(b)) :
                            StripComma(Text(b)[k]) =
                                "Torch_DictType:$" \o b.operator.arguments[i].name

C11_Witness ==
    /\ last.fn = "get_ods_type" /\ last.key = "Dict(str, Tensor)"
    /\ last.result = "Torch_DictType"
    /\ calls = 2

----------------------------------------------------------------------------
(* Reading a parenthesized list of a block: the entries between its        *)
(* opening line and the first closing parenthesis after it.                *)

ListStart(ls, opening) == CHOOSE k \in 1..Len(ls) : ls[k] = opening

ListStop(ls, opening) ==
    CHOOSE k \in (ListStart(ls, opening) + 1)..Len(ls) :
        /\ ls[k] = ");"
        /\ \A j \in (ListStart(ls, opening) + 1)..(k - 1) : ls[j] # ");"

PrintedList(ls, opening) ==
    [i \in 1..(ListStop(ls, opening) - ListStart(ls, opening) - 1) |->
        ls[ListStart(ls, opening) + i]]

(* The entries a list of declared arguments or returns is printed as:      *)
(* predicate and name, a comma after all but the last.                     *)
Predicate(type) == TableInit[IF StartsWith(type, "Dict(") THEN "Dict" ELSE type]

Declared(entries, names) ==
    [i \in 1..Len(entries) |->
        Predicate(entries[i].type) \o ":$" \o names[i]
            \o (IF i < Len(entries) THEN "," ELSE "")]

Mapped(entries) ==
    \A i \in 1..Len(entries) :
        entries[i].type \in DOMAIN TableInit \/ StartsWith(entries[i].type, "Dict(")

(* C12: Argument and result lists: in a completed block the argument list  *)
(* is the single entry Variadic<AnyTorchType>:$operands if is_vararg, and  *)
(* otherwise one predicate:$name entry per declared argument in declared   *)
(* order; the result list is the single entry                              *)
(* Variadic<AnyTorchType>:$results if is_varret, and otherwise one entry   *)
(* per declared return in declared order. No declared argument type of a   *)
(* vararg operator is resolved: its block completes whenever its returns   *)
(* resolve, whatever the declared argument types are.                      *)
C12_ArgumentAndResultLists ==
    \A b \in NewBlocks :
        LET ls == Text(b) IN
        /\ Completed(b) =>
            /\ PrintedList(ls, "let arguments = (ins") =
                    IF b.operator.is_vararg THEN <<"Variadic<AnyTorchType>:$operands">>
                    ELSE Declared(b.operator.arguments,
                                  [i \in 1..Len(b.operator.arguments) |->
                                        b.operator.arguments[i].name])
            /\ PrintedList(ls, "let results = (outs") =
                    IF b.operator.is_varret THEN <<"Variadic<AnyTorchType>:$results">>
                    ELSE Declared(b.operator.returns,
                                  [i \in 1..Len(b.operator.returns) |->
                                        IF b.operator.returns[i].name # ""
                                        THEN b.operator.returns[i].name
                                        ELSE IF Len(b.operator.returns) = 1 THEN "result"
                                        ELSE "result" \o ToString(i - 1)])
        /\ (b.operator.is_vararg /\ (b.operator.is_varret \/ Mapped(b.operator.returns)))
                => Completed(b)
        /\ (b.operator.is_varret /\ (b.operator.is_vararg \/ Mapped(b.operator.arguments)))
                => Completed(b)

C12_Witness ==
    \E b \in Blocks :
        /\ Completed(b) /\ b.operator.is_vararg /\ ~b.operator.is_varret
        /\ \E i \in 1..Len(b.operator.arguments) : b.operator.arguments[i].type = "Complex"
        /\ Len(b.operator.returns) = 2
        /\ PrintedList(Text(b), "let arguments = (ins") = <<"Variadic<AnyTorchType>:$operands">>
        /\ Len(PrintedList(Text(b), "let results = (outs")) = 2

----------------------------------------------------------------------------
(* C13: Fail-fast run: once a call of the run has raised (unmapped type,   *)
(* missing operator, missing variant), no step of the run follows: the     *)
(* sink, the record of emitted blocks and the number of calls made stay    *)
(* as the failing call left them.                                          *)
C13_FailFast ==
    [][last.exc.raised => (out' = out /\ emitted' = emitted /\ calls' = calls)]_vars

(* A first entry has failed on a missing variant while the catalog still   *)
(* holds an entry that would emit a block.                                 *)
C13_Witness ==
    /\ last.exc.raised /\ status = "aborted"
    /\ calls = 1 /\ calls < MaxCalls
    /\ VariantMissing /\ last.blocks = 1
    /\ \E e \in catalog :
            /\ e.fn = "emit"
            /\ \E o \in registry : UniqueKey(o) = e.key /\ Mapped(o.arguments)

----------------------------------------------------------------------------
(* The sink as the last call found it is the beginning of the sink now. *)
EarlierLinesKept ==
    /\ Len(last.out_before) <= Len(out)
    /\ SubSeq(out, 1, Len(last.out_before)) = last.out_before

(* C14: Indentation restoration: the indentation level of the sink after   *)
(* every call, returned or raised, is the level before it (the level of    *)
(* the start of the run, 0): every block, also one written after a         *)
(* completed block, starts at column 0 with its header, and a block ended  *)
(* by an unmapped type stops inside the argument or result scope, two      *)
(* levels deep, with the level back at 0. The lines written before a call  *)
(* are unchanged by it.                                                    *)
C14_IndentationRestored ==
    /\ indent_level = 0
    /\ last.fn # "" => EarlierLinesKept
    /\ \A b \in NewBlocks :
            /\ StartsWith(out[b.first], "def Torch_")
            /\ ~Completed(b) =>
                    /\ b.last = Len(out)
                    /\ \/ out[b.last] = "  let arguments = (ins"
                       \/ out[b.last] = "  let results = (outs"

C14_Witness ==
    /\ Len(emitted) = 2 /\ indent_level = 0
    /\ Completed(emitted[1]) /\ ~Completed(emitted[2])
    /\ out[emitted[2].last] = "  let arguments = (ins"
    /\ emitted[2].exc.raised /\ Contains(emitted[2].exc.msg, "'Complex'")

----------------------------------------------------------------------------
(* Reading the sink as a whole.                                            *)

BannerLines == p_td(0, ODS_BANNER)

(* The summary line of the block of an operator. *)
SummaryOf(operator) ==
    "  let summary = \"Generated op for " \o BT \o UniqueKey(operator) \o BT \o "\";"

(* The block is one whole definition of its operator. *)
SelfContained(b) ==
    /\ StartsWith(out[b.first], "def Torch_")
    /\ \E k \in b.first..b.last : out[k] = SummaryOf(b.operator)
    /\ b.last >= b.first + 2
    /\ out[b.last - 1] = "}"
    /\ out[b.last] = ""
    /\ \A k \in (b.first + 1)..b.last : ~StartsWith(out[k], "def ")

(* The blocks tile the sink after the banner, in the order of the calls. *)
Tiled ==
    /\ SubSeq(out, 1, Len(BannerLines)) = BannerLines
    /\ emitted # <<>> =>
            /\ emitted[1].first = Len(BannerLines) + 1
            /\ emitted[Len(emitted)].last = Len(out)
    /\ emitted = <<>> => Len(out) = Len(BannerLines)
    /\ \A i \in 1..(Len(emitted) - 1) :
            /\ emitted[i + 1].first = emitted[i].last + 1
            /\ emitted[i].call <= emitted[i + 1].call

(* One block per plain entry, two per mutating-variant entry, the variant  *)
(* right after its base.                                                   *)
BlocksPerEntry ==
    \A i \in 1..Len(emitted) :
        LET same == {j \in 1..Len(emitted) : emitted[j].call = emitted[i].call} IN
        IF emitted[i].fn = "emit_with_mutating_variants"
        THEN /\ Cardinality(same) = 2
             /\ \E j \in same :
                    /\ j + 1 \in same
                    /\ emitted[j + 1].operator.unqualified_name =
                            emitted[j].operator.unqualified_name \o "_"
                    /\ emitted[j + 1].operator.namespace = emitted[j].operator.namespace
        ELSE same = {i}

(* C15: Order-preserving emission: while no call of the run has failed,    *)
(* the sink is the banner followed by the blocks of the calls in the order *)
(* the calls were made, nothing between them: one block per emit call, two *)
(* per emit_with_mutating_variants call with the variant's block directly  *)
(* after the base's; each block starts with its def Torch_ header, holds   *)
(* the summary of its operator, ends with the closing brace and a blank    *)
(* line, and holds no other header.                                        *)
C15_OrderPreserved ==
    status = "running" =>
        /\ Tiled
        /\ BlocksPerEntry
        /\ \A b \in NewBlocks : SelfContained(b)
        /\ last.fn \in {"emit", "emit_op"} =>
                /\ last.blocks = 1
                /\ UniqueKey(emitted[Len(emitted)].operator) = last.key
        /\ last.fn = "emit_with_mutating_variants" =>
                /\ last.blocks = 2
                /\ UniqueKey(emitted[Len(emitted) - 1].operator) = last.key

C15_Witness ==
    /\ status = "running" /\ calls = 2 /\ Len(emitted) = 3
    /\ emitted[1].fn = "emit"
    /\ emitted[2].fn = "emit_with_mutating_variants"
    /\ emitted[3].fn = "emit_with_mutating_variants"
    /\ emitted[3].operator.unqualified_name = "add_"
    /\ emitted[3].last = Len(out)

----------------------------------------------------------------------------
(* The position of a line in a block, 0 if the block does not have it. *)
LineOf(ls, text) ==
    IF \E k \in 1..Len(ls) : ls[k] = text
    THEN CHOOSE k \in 1..Len(ls) : ls[k] = text /\ \A j \in 1..(k - 1) : ls[j] # text
    ELSE 0

(* The last line of the syntax section: the assemblyFormat line, or the    *)
(* closing line of extraClassDefinition.                                   *)
SyntaxEnd(ls) ==
    IF HasFormatLine(ls)
    THEN CHOOSE k \in 1..Len(ls) : StartsWith(ls[k], "let assemblyFormat = ")
    ELSE LineOf(ls, "}];")

(* C16: Folder and canonicalizer markers are independent: a completed      *)
(* block has the line let hasFolder = 1; exactly when has_folder was true  *)
(* for the emission (once), and the line let hasCanonicalizer = 1; exactly *)
(* when has_canonicalizer was true (once); both are absent when no flag is *)
(* passed; a marker follows the assembly-format or hook section, and the   *)
(* folder marker precedes the canonicalizer marker when both are there.    *)
C16_MarkersIndependent ==
    \A b \in NewBlocks :
        LET ls == Text(b) IN
        Completed(b) =>
            /\ CountLines(ls, "let hasFolder") = (IF b.has_folder THEN 1 ELSE 0)
            /\ HasExactLine(ls, "let hasFolder = 1;") <=> b.has_folder
            /\ CountLines(ls, "let hasCanonicalizer") = (IF b.has_canonicalizer THEN 1 ELSE 0)
            /\ HasExactLine(ls, "let hasCanonicalizer = 1;") <=> b.has_canonicalizer
            /\ SyntaxEnd(ls) > 0
            /\ b.has_folder => LineOf(ls, "let hasFolder = 1;") > SyntaxEnd(ls)
            /\ b.has_canonicalizer =>
                    LineOf(ls, "let hasCanonicalizer = 1;") > SyntaxEnd(ls)
            /\ (b.has_folder /\ b.has_canonicalizer) =>
                    LineOf(ls, "let hasCanonicalizer = 1;")
                        = LineOf(ls, "let hasFolder = 1;") + 1

C16_Witness ==
    \E b1 \in Blocks, b2 \in Blocks :
        /\ Completed(b1) /\ Completed(b2)
        /\ ~b1.has_folder /\ b1.has_canonicalizer
        /\ HasExactLine(Text(b1), "let hasCanonicalizer = 1;")
        /\ b2.has_folder /\ ~b2.has_canonicalizer
        /\ HasExactLine(Text(b2), "let hasFolder = 1;")
        /\ b1.operator.is_vararg

----------------------------------------------------------------------------
(* The type clauses the assemblyFormat line of an operator is built from. *)
OperandClause(operator) ==
    IF operator.is_vararg THEN "qualified(type($operands))"
    ELSE Join(COMMA, [i \in 1..Len(operator.arguments) |->
                "qualified(type($" \o operator.arguments[i].name \o "))"])

ResultClause(operator, names) ==
    IF operator.is_varret THEN "qualified(type($results))"
    ELSE Join(COMMA, [i \in 1..Len(names) |-> "qualified(type($" \o names[i] \o "))"])

(* C17: In every completed block with an assemblyFormat line, the format   *)
(* has the arrow separator if and only if the operand-type clause and the  *)
(* result-type clause are both non-empty, and then has it once, between    *)
(* the two; when a clause is empty (a non-vararg operator without declared *)
(* arguments, a non-varret operator without declared returns) the format   *)
(* has no arrow and its type part is the other clause alone.               *)
C17_ArrowIffBothClauses ==
    \A b \in NewBlocks :
        LET ls == Text(b) IN
        (Completed(b) /\ HasFormatLine(ls)) =>
            LET t == TypeClauses(FormatLine(ls))
                operands == OperandClause(b.operator)
                results == ResultClause(b.operator, PrintedResultNames(ls))
            IN  /\ HasArrow(FormatLine(ls)) <=> (operands # "" /\ results # "")
                /\ HasArrow(FormatLine(ls)) => t = operands \o ARROW \o results
                /\ ~HasArrow(FormatLine(ls)) => t = operands \o results
                /\ operands = "" <=>
                        (~b.operator.is_vararg /\ Len(b.operator.arguments) = 0)
                /\ results = "" <=>
                        (~b.operator.is_varret /\ Len(b.operator.returns) = 0)

C17_Witness ==
    \E b1 \in Blocks :
        /\ Completed(b1) /\ b1.operator.is_vararg /\ ~b1.operator.is_varret
        /\ Len(b1.operator.returns) = 0
        /\ HasFormatLine(Text(b1)) /\ ~HasArrow(FormatLine(Text(b1)))
        /\ TypeClauses(FormatLine(Text(b1))) = "qualified(type($operands))"

----------------------------------------------------------------------------
(* The first line of a block that starts with prefix, without the prefix. *)
RestOf(ls, prefix) ==
    After(ls[CHOOSE k \in 1..Len(ls) : StartsWith(ls[k], prefix)], prefix)

(* C18: Every completed block has exactly one of the two syntax sections:  *)
(* either one assemblyFormat line and no custom-assembly marker and no     *)
(* hook, or no assemblyFormat line and one custom-assembly marker, one     *)
(* parse hook and one print hook; the two hooks then carry the same pair   *)
(* of counts, len(arguments) and len(returns).                             *)
C18_ExactlyOneSyntaxSection ==
    \A b \in NewBlocks :
        LET ls == Text(b)
            formats == CountLines(ls, "let assemblyFormat")
            markers == CountLines(ls, "let hasCustomAssemblyFormat")
            extras == CountLines(ls, "let extraClassDefinition")
            parses == CountLines(ls, "return parseDefaultTorchOp(")
            prints == CountLines(ls, "printDefaultTorchOp(")
        IN  Completed(b) =>
            \/ /\ formats = 1
               /\ markers = 0 /\ extras = 0 /\ parses = 0 /\ prints = 0
            \/ /\ formats = 0
               /\ markers = 1 /\ extras = 1 /\ parses = 1 /\ prints = 1
               /\ HasCustomMarker(ls)
               /\ RestOf(ls, "return parseDefaultTorchOp(parser, result, ")
                    = RestOf(ls, "printDefaultTorchOp(printer, *this, ")
               /\ RestOf(ls, "printDefaultTorchOp(printer, *this, ")
                    = ToString(Len(b.operator.arguments)) \o ", "
                        \o ToString(Len(b.operator.returns)) \o ");"

C18_Witness ==
    \E b \in Blocks :
        /\ Completed(b)
        /\ Len(b.operator.arguments) = 2 /\ Len(b.operator.returns) = 0
        /\ RestOf(Text(b), "return parseDefaultTorchOp(parser, result, ") = "2, 0);"
        /\ CountLines(Text(b), "let assemblyFormat") = 0

----------------------------------------------------------------------------
(* C19: In emit_with_mutating_variants the keyword options apply to the    *)
(* base block only: whatever traits, has_folder and has_canonicalizer were *)
(* passed, the variant block has neither marker, and its trait list is the *)
(* pairing trait (when the base overload is not "functional") and the      *)
(* traits inferred from the variant operator, with none of the base's      *)
(* explicit traits; the base block has the options that were passed.       *)
C19_OptionsForBaseOnly ==
    (DerivedVariant /\ last.blocks = 2) =>
        /\ BaseBlock.explicit = last.kwargs.traits
        /\ BaseBlock.has_folder = last.kwargs.has_folder
        /\ BaseBlock.has_canonicalizer = last.kwargs.has_canonicalizer
        /\ HasExactLine(Text(BaseBlock), "let hasFolder = 1;") <=> last.kwargs.has_folder
        /\ HasExactLine(Text(BaseBlock), "let hasCanonicalizer = 1;")
                <=> last.kwargs.has_canonicalizer
        /\ ~VariantBlock.has_folder /\ ~VariantBlock.has_canonicalizer
        /\ VariantBlock.traits =
                (IF BaseBlock.operator.overload_name # "functional"
                 THEN <<"IsTrailingUnderscoreInplaceVariant">> ELSE <<>>)
                \o Inferred(VariantBlock)
        /\ Completed(VariantBlock) =>
                /\ ~HasLine(Text(VariantBlock), "let hasFolder")
                /\ ~HasLine(Text(VariantBlock), "let hasCanonicalizer")
                /\ PrintedTraits(Text(VariantBlock)) = VariantBlock.traits
                /\ \A i \in 1..Len(last.kwargs.traits.items) :
                        ~HasLine(Text(VariantBlock), last.kwargs.traits.items[i])

C19_Witness ==
    /\ DerivedVariant /\ last.blocks = 2 /\ Completed(VariantBlock)
    /\ last.kwargs.traits.items = <<"Pure">>
    /\ last.kwargs.has_folder /\ last.kwargs.has_canonicalizer
    /\ BaseBlock.operator.overload_name = "Tensor"
    /\ HasExactLine(Text(BaseBlock), "Pure,")
    /\ PrintedTraits(Text(VariantBlock)) =
            <<"IsTrailingUnderscoreInplaceVariant", "AllowsTypeRefinement">>

====
